---- MODULE Spec2Model ----
(***************************************************************************)
(* Blok File System (src/src/blokfs.c): a FUSE pass-through driver.        *)
(*                                                                         *)
(* The handlers are modelled in independent groups, each with its own      *)
(* variables and its own specification:                                    *)
(*   SpecPath  blok_fullpath and the path buffer of a path-taking handler  *)
(*   SpecLink  blok_readlink and its reply buffer                          *)
(*   SpecMain  main, log_open, blok_usage and the entry into fuse_main     *)
(*   Spec      the handle-carrying handlers (open, release, opendir,       *)
(*             releasedir, readdir) and the forwarding handlers, with      *)
(*             per-thread errno                                            *)
(*   SpecDir   one directory stream: opendir, readdir with the filler,     *)
(*             releasedir                                                  *)
(*   SpecIo    blok_read and blok_write on one open descriptor             *)
(***************************************************************************)
EXTENDS Integers, Sequences, FiniteSets, TLC

VARIABLES
    \* ---- SpecPath
    rootdir,      \* BLOK_DATA->rootdir, a sequence of characters
    vpath,        \* the path argument of the handler
    fpath,        \* bytes written from &fpath[0] on, terminator included
    pathPc,       \* "call" | "done" | "smashed"
    \* ---- SpecLink
    target,       \* the symlink's target text in the underlying filesystem
    size,         \* the size argument of blok_readlink
    link,         \* the caller's buffer, size bytes
    linkOob,      \* indexes outside 0..size-1 that were written
    linkFail,     \* 0, or the error the underlying readlink fails with
    linkErrno,    \* errno of the calling thread
    linkRaw,      \* what the underlying readlink returned
    linkRet,      \* what blok_readlink returned
    linkPc,       \* "call" | "done"
    \* ---- SpecMain
    argc,         \* number of command-line words
    hyphenRoot,   \* argv[argc-2] starts with '-'
    hyphenMount,  \* argv[argc-1] starts with '-'
    mallocOk,     \* malloc(sizeof(struct fs_state)) returns memory
    realpathOk,   \* realpath(argv[argc-2], NULL) resolves the root
    fopenOk,      \* fopen("blok.log", "w") opens the log
    mainPc,       \* where main is
    blok_data,    \* "unallocated", or the session record
    exitStatus,   \* "running" | "SIGABRT" | "EXIT_FAILURE" | "SIGSEGV" | "fuse_stat"
    handlerCalls, \* handlers the transport has run
    \* ---- Spec
    errno,        \* errno of each thread
    slot,         \* fi->fh of each open-file object of the transport
    kind,         \* "none" | "file" | "dir": the handler that filled the slot
    fdTable,      \* the process's descriptor table
    dirLive,      \* DIR pointers of the streams that exist
    dirFd,        \* the descriptor inside each DIR
    crashed,      \* the process died on an invalid pointer
    last,         \* the handler call that made the last step
    \* ---- SpecDir
    dEntries,     \* the entries the underlying stream yields, in its order
    dPos,         \* the stream's position: entries already read from it
    dState,       \* "closed" | "open" | "released"
    dErrno,       \* errno of the thread that serves the directory
    dHanded,      \* names passed to the filler, over all readdir calls
    dTaken,       \* names the filler accepted, over all readdir calls
    dLast,        \* the last readdir call
    \* ---- SpecIo
    ioFile,       \* the bytes of the underlying file
    ioCursor,     \* the file position of the open descriptor
    ioWritten,    \* what write calls last put at each position
    ioPc,         \* per thread: "idle", or "logged" inside blok_read
    ioArgs,       \* per thread: the offset and size of the read in progress
    ioLast        \* the last finished read or write

pathVars == <<rootdir, vpath, fpath, pathPc>>
linkVars == <<target, size, link, linkOob, linkFail, linkErrno, linkRaw, linkRet, linkPc>>
mainVars == <<argc, hyphenRoot, hyphenMount, mallocOk, realpathOk, fopenOk,
              mainPc, blok_data, exitStatus, handlerCalls>>
fsVars == <<errno, slot, kind, fdTable, dirLive, dirFd, crashed, last>>
dirVars == <<dEntries, dPos, dState, dErrno, dHanded, dTaken, dLast>>
ioVars == <<ioFile, ioCursor, ioWritten, ioPc, ioArgs, ioLast>>
vars == <<pathVars, linkVars, mainVars, fsVars, dirVars, ioVars>>

\* What each group's actions leave alone.
notPath == <<linkVars, mainVars, fsVars, dirVars, ioVars>>
notLink == <<pathVars, mainVars, fsVars, dirVars, ioVars>>
notMain == <<pathVars, linkVars, fsVars, dirVars, ioVars>>
notFs == <<pathVars, linkVars, mainVars, dirVars, ioVars>>
notDir == <<pathVars, linkVars, mainVars, fsVars, ioVars>>
notIo == <<pathVars, linkVars, mainVars, fsVars, dirVars>>

(***************************************************************************)
(* A group that a specification does not exercise rests in its idle state. *)
(***************************************************************************)
PathIdle ==
    /\ rootdir = <<>>
    /\ vpath = <<>>
    /\ fpath = <<>>
    /\ pathPc = "idle"

LinkIdle ==
    /\ target = <<>>
    /\ size = 0
    /\ link = <<>>
    /\ linkOob = {}
    /\ linkFail = 0
    /\ linkErrno = 0
    /\ linkRaw = 0
    /\ linkRet = 0
    /\ linkPc = "idle"

MainIdle ==
    /\ argc = 0
    /\ hyphenRoot = FALSE
    /\ hyphenMount = FALSE
    /\ mallocOk = TRUE
    /\ realpathOk = TRUE
    /\ fopenOk = TRUE
    /\ mainPc = "idle"
    /\ blok_data = "unallocated"
    /\ exitStatus = "running"
    /\ handlerCalls = 0

FsIdle ==
    /\ errno = <<>>
    /\ slot = <<>>
    /\ kind = <<>>
    /\ fdTable = <<>>
    /\ dirLive = {}
    /\ dirFd = <<>>
    /\ crashed = FALSE
    /\ last = "idle"

DirIdle ==
    /\ dEntries = <<>>
    /\ dPos = 0
    /\ dState = "idle"
    /\ dErrno = 0
    /\ dHanded = <<>>
    /\ dTaken = <<>>
    /\ dLast = "idle"

IoIdle ==
    /\ ioFile = <<>>
    /\ ioCursor = 0
    /\ ioWritten = <<>>
    /\ ioPc = <<>>
    /\ ioArgs = <<>>
    /\ ioLast = "idle"

(***************************************************************************)
(* Helpers                                                                 *)
(***************************************************************************)
Min(a, b) == IF a < b THEN a ELSE b

\* All sequences over S of length lo..hi.
SeqsOf(S, lo, hi) == UNION {[1..n -> S] : n \in lo..hi}

\* errno values of <errno.h>
ENOENT == 2
EIO == 5
EBADF == 9
ENOMEM == 12
EINVAL == 22
EMFILE == 24

(***************************************************************************)
(* Result normalisation: wrap_return_code reads the calling thread's errno *)
(* at the time it runs.                                                    *)
(***************************************************************************)
wrap_return_code(real_code, err) == IF real_code < 0 THEN -err ELSE real_code

(***************************************************************************)
(* SpecPath: blok_fullpath                                                 *)
(***************************************************************************)
PATH_MAX == 4096
NUL == "nul"

\* Longest virtual path and shortest "long" root drawn by PathInit.
MaxPathLen == 3
PathChars == {"/", ".", "a"}

\* The C string held in a byte image: the bytes before the first terminator.
CStr(mem) ==
    LET nuls == {i \in 1..Len(mem) : mem[i] = NUL}
    IN  IF nuls = {} THEN mem
        ELSE SubSeq(mem, 1, (CHOOSE i \in nuls : \A j \in nuls : i <= j) - 1)

\* strcpy(dest, src): src's characters and its terminator, from dest[0] on.
strcpy(src) == src \o <<NUL>>

\* strncat(dest, src, n): at most n characters of src appended at dest's
\* terminator, then a terminator; the size of dest is never consulted.
strncat(dest, src, n) == CStr(dest) \o SubSeq(src, 1, Min(Len(src), n)) \o <<NUL>>

blok_fullpath_nocat(root, path) == strncat(<<NUL>>, path, PATH_MAX)

blok_fullpath(root, path) == strncat(strcpy(root), path, PATH_MAX)

\* An absolute root of n characters with no trailing slash.
LongRoot(n) == [i \in 1..n |-> IF i = 1 THEN "/" ELSE "r"]

Roots ==
    {<<"/", "r">>, <<"/", "r", "/", "s">>}
        \cup {LongRoot(n) : n \in (PATH_MAX - MaxPathLen - 1)..(PATH_MAX - 1)}

VirtualPaths == {<<"/">> \o s : s \in SeqsOf(PathChars, 0, MaxPathLen - 1)}

PathInit ==
    /\ rootdir \in Roots
    /\ vpath \in VirtualPaths
    /\ fpath = <<>>
    /\ pathPc = "call"

\* A path-taking handler (blok_getattr and the like): blok_fullpath fills the
\* PATH_MAX-byte stack buffer and the buffer goes to the underlying call.
PathHandler ==
    /\ pathPc = "call"
    /\ fpath' = blok_fullpath(rootdir, vpath)
    /\ pathPc' = "done"
    /\ Len(fpath') <= PATH_MAX
    /\ UNCHANGED <<rootdir, vpath, notPath>>

\* The same call when the bytes do not fit: strncat writes past fpath[PATH_MAX-1]
\* into the handler's frame.  The call may go on with the clobbered frame or the
\* process may die on it.
PathHandlerOverflow ==
    /\ pathPc = "call"
    /\ fpath' = blok_fullpath(rootdir, vpath)
    /\ Len(fpath') > PATH_MAX
    /\ pathPc' \in {"done", "smashed"}
    /\ UNCHANGED <<rootdir, vpath, notPath>>

InitPath == PathInit /\ LinkIdle /\ MainIdle /\ FsIdle /\ DirIdle /\ IoIdle
NextPath == PathHandler \/ PathHandlerOverflow
SpecPath == InitPath /\ [][NextPath]_vars

\* The path handed to the underlying call.
RealPath == CStr(fpath)

\* C7 (as stated): for every root and every virtual path the handler passes
\* exactly root followed by path, and writes nothing beyond the PATH_MAX bytes.
C7_AnyLength ==
    pathPc \in {"done", "smashed"} =>
        /\ pathPc = "done"
        /\ RealPath = rootdir \o vpath
        /\ Len(fpath) <= PATH_MAX

\* C7 (amended): when root and path together are shorter than PATH_MAX, the
\* handler passes exactly root followed by path, nothing collapsed or dropped,
\* and every byte written, terminator included, lies inside the buffer.
C7_FitsBuffer ==
    (pathPc # "call" /\ Len(rootdir) + Len(vpath) < PATH_MAX) =>
        /\ pathPc = "done"
        /\ RealPath = rootdir \o vpath
        /\ Len(fpath) <= PATH_MAX

\* C7 witness: an exact fit (terminator in the last byte) of a path with "..".
C7_Witness ==
    /\ pathPc = "done"
    /\ vpath = <<"/", ".", ".">>
    /\ Len(rootdir) + Len(vpath) = PATH_MAX - 1
    /\ Len(fpath) = PATH_MAX

(***************************************************************************)
(* SpecLink: blok_readlink                                                 *)
(***************************************************************************)
\* Largest symlink target and largest buffer size drawn by LinkInit.
MaxTarget == 3
MaxSize == 4
LinkBytes == {"a", "b"}
\* A byte of the caller's buffer that nothing has written yet.
Unwritten == "?"

\* The underlying readlink(path, buf, bufsiz): fails with `fail` when that is
\* not 0; the kernel takes bufsiz as an int and rejects bufsiz <= 0 with EINVAL
\* (size 0 makes size - 1 the all-ones size_t, -1 as an int; size 1 makes it 0);
\* otherwise it copies min(length, bufsiz) bytes and no terminator.
sys_readlink(tgt, bufsiz, fail) ==
    IF fail # 0 THEN [ret |-> -1, err |-> fail, bytes |-> <<>>]
    ELSE IF bufsiz <= 0 THEN [ret |-> -1, err |-> EINVAL, bytes |-> <<>>]
    ELSE [ret |-> Min(Len(tgt), bufsiz), err |-> 0,
          bytes |-> SubSeq(tgt, 1, Min(Len(tgt), bufsiz))]

\* Store of one byte at index idx (0-based) of a buffer of Len(buf) bytes.
StoreByte(buf, idx, byte) ==
    IF idx >= 0 /\ idx < Len(buf) THEN [buf EXCEPT ![idx + 1] = byte] ELSE buf

StoreOob(buf, oob, idx) ==
    IF idx >= 0 /\ idx < Len(buf) THEN oob ELSE oob \cup {idx}

\* Store of a run of bytes from index 0.
StoreRun(buf, bytes) ==
    [i \in 1..Len(buf) |-> IF i <= Len(bytes) THEN bytes[i] ELSE buf[i]]

RunOob(buf, bytes) == {i \in 0..(Len(bytes) - 1) : i >= Len(buf)}

ReadlinkBufsizWhole(sz) == sz

\* The size blok_readlink passes down: size - 1.
ReadlinkBufsiz(sz) == sz - 1

LinkInit ==
    /\ target \in SeqsOf(LinkBytes, 1, MaxTarget)
    /\ size \in 0..MaxSize
    /\ link = [i \in 1..size |-> Unwritten]
    /\ linkOob = {}
    /\ linkFail \in {0, ENOENT, EINVAL}
    /\ linkErrno \in {0, EIO}
    /\ linkRaw = 0
    /\ linkRet = 0
    /\ linkPc = "call"

\* blok_readlink, whole handler.
blok_readlink ==
    /\ linkPc = "call"
    /\ LET r == sys_readlink(target, ReadlinkBufsiz(size), linkFail)
           e == IF r.ret < 0 THEN r.err ELSE linkErrno
           filled == StoreRun(link, r.bytes)
           retstat == wrap_return_code(r.ret, e)
       IN  /\ linkRaw' = r.ret
           /\ linkErrno' = e
           /\ IF retstat >= 0
              THEN /\ link' = StoreByte(filled, retstat, NUL)
                   /\ linkOob' = StoreOob(filled, RunOob(link, r.bytes), retstat)
                   /\ linkRet' = 0
              ELSE /\ link' = filled
                   /\ linkOob' = RunOob(link, r.bytes)
                   /\ linkRet' = retstat
    /\ linkPc' = "done"
    /\ UNCHANGED <<target, size, linkFail, notLink>>

InitLink == LinkInit /\ PathIdle /\ MainIdle /\ FsIdle /\ DirIdle /\ IoIdle
NextLink == blok_readlink
SpecLink == InitLink /\ [][NextLink]_vars

\* C4: a successful readlink returns 0, leaves at most size - 1 target bytes in
\* the buffer followed by one terminator at the index equal to the number of
\* bytes read, touches no byte outside the size bytes of the buffer, and when
\* the target is longer than the buffer leaves exactly its first size - 1
\* bytes; a failed readlink returns the negated error code of the failed call
\* and writes nothing.
C4_Readlink ==
    linkPc = "done" =>
        IF linkRaw >= 0
        THEN /\ linkRet = 0
             /\ linkRaw <= size - 1
             /\ linkOob = {}
             /\ Len(link) = size
             /\ SubSeq(link, 1, linkRaw) = SubSeq(target, 1, linkRaw)
             /\ link[linkRaw + 1] = NUL
             /\ \A i \in (linkRaw + 2)..size : link[i] = Unwritten
             /\ linkRaw = Min(Len(target), size - 1)
             /\ (Len(target) > size => CStr(link) = SubSeq(target, 1, size - 1))
        ELSE /\ linkRet = -(IF linkFail # 0 THEN linkFail ELSE EINVAL)
             /\ linkRet < 0
             /\ linkOob = {}
             /\ link = [i \in 1..size |-> Unwritten]

\* C4 witness: a target longer than the buffer was read and truncated.
C4_Witness ==
    /\ linkPc = "done"
    /\ linkRet = 0
    /\ Len(target) > size
    /\ linkRaw = size - 1
    /\ linkRaw >= 1
    /\ link[size] = NUL

(***************************************************************************)
(* SpecMain: main, blok_usage, log_open, and the transport's main loop     *)
(***************************************************************************)
\* Most command-line words and most handler calls drawn.
MaxArgc == 4
MaxCalls == 2

MainInit ==
    /\ argc \in 1..MaxArgc
    /\ hyphenRoot \in BOOLEAN
    /\ hyphenMount \in BOOLEAN
    /\ mallocOk \in BOOLEAN
    /\ realpathOk \in BOOLEAN
    /\ fopenOk \in BOOLEAN
    /\ mainPc = "args"
    /\ blok_data = "unallocated"
    /\ exitStatus = "running"
    /\ handlerCalls = 0

MainFixed == <<argc, hyphenRoot, hyphenMount, mallocOk, realpathOk, fopenOk>>

\* The command-line test of main; blok_usage prints and calls abort().
BadCommandLine == (argc < 3) \/ hyphenRoot \/ hyphenMount

blok_usage ==
    /\ mainPc = "args"
    /\ BadCommandLine
    /\ mainPc' = "exited"
    /\ exitStatus' = "SIGABRT"
    /\ UNCHANGED <<MainFixed, blok_data, handlerCalls, notMain>>

main_args_ok ==
    /\ mainPc = "args"
    /\ ~BadCommandLine
    /\ mainPc' = "malloc"
    /\ UNCHANGED <<MainFixed, blok_data, exitStatus, handlerCalls, notMain>>

\* malloc of the session state; NULL ends in perror and abort().
main_malloc ==
    /\ mainPc = "malloc"
    /\ IF mallocOk
       THEN /\ blok_data' = [rootdir |-> "uninitialised", logfile |-> "uninitialised"]
            /\ mainPc' = "realpath"
            /\ UNCHANGED exitStatus
       ELSE /\ blok_data' = "NULL"
            /\ mainPc' = "exited"
            /\ exitStatus' = "SIGABRT"
    /\ UNCHANGED <<MainFixed, handlerCalls, notMain>>

\* blok_data->rootdir = realpath(argv[argc-2], NULL); the result is stored as
\* it comes and never tested.
main_realpath ==
    /\ mainPc = "realpath"
    /\ blok_data' = [blok_data EXCEPT !.rootdir = IF realpathOk THEN "absolute" ELSE "NULL"]
    /\ mainPc' = "log_open"
    /\ UNCHANGED <<MainFixed, exitStatus, handlerCalls, notMain>>

\* blok_data->logfile = log_open(): fopen, and on NULL perror and
\* exit(EXIT_FAILURE); else setvbuf and return.
log_open ==
    /\ mainPc = "log_open"
    /\ IF fopenOk
       THEN /\ blok_data' = [blok_data EXCEPT !.logfile = "open"]
            /\ mainPc' = "fuse_main"
            /\ UNCHANGED exitStatus
       ELSE /\ mainPc' = "exited"
            /\ exitStatus' = "EXIT_FAILURE"
            /\ UNCHANGED blok_data
    /\ UNCHANGED <<MainFixed, handlerCalls, notMain>>

\* fuse_main(argc, argv, &blok_oper, blok_data): the transport's loop starts.
main_fuse_main ==
    /\ mainPc = "fuse_main"
    /\ mainPc' = "loop"
    /\ UNCHANGED <<MainFixed, blok_data, exitStatus, handlerCalls, notMain>>

\* The loop runs one handler.  A path-taking handler calls blok_fullpath, whose
\* strcpy reads BLOK_DATA->rootdir: a null rootdir is dereferenced there.
main_handler ==
    /\ mainPc = "loop"
    /\ handlerCalls < MaxCalls
    /\ \E takesPath \in BOOLEAN :
          IF takesPath /\ blok_data.rootdir = "NULL"
          THEN /\ mainPc' = "exited"
               /\ exitStatus' = "SIGSEGV"
          ELSE UNCHANGED <<mainPc, exitStatus>>
    /\ handlerCalls' = handlerCalls + 1
    /\ UNCHANGED <<MainFixed, blok_data, notMain>>

\* The loop ends (unmount, or a mount that failed) and main returns fuse_stat.
main_return ==
    /\ mainPc = "loop"
    /\ mainPc' = "exited"
    /\ exitStatus' = "fuse_stat"
    /\ UNCHANGED <<MainFixed, blok_data, handlerCalls, notMain>>

InitMain == MainInit /\ PathIdle /\ LinkIdle /\ FsIdle /\ DirIdle /\ IoIdle
NextMain ==
    \/ blok_usage
    \/ main_args_ok
    \/ main_malloc
    \/ main_realpath
    \/ log_open
    \/ main_fuse_main
    \/ main_handler
    \/ main_return
SpecMain == InitMain /\ [][NextMain]_vars

\* A startup resource that could not be had, on a well-formed command line.
StartupFailure == ~BadCommandLine /\ (~mallocOk \/ ~realpathOk \/ ~fopenOk)

\* C9: when the session state cannot be allocated, the root cannot be resolved
\* or the log cannot be opened, main never enters the transport loop and ends
\* with a non-zero status, so no handler runs with the root or the log unset.
C9_StartupFatal ==
    /\ (StartupFailure /\ mainPc \in {"loop", "exited"}) =>
          /\ mainPc = "exited"
          /\ exitStatus \in {"SIGABRT", "EXIT_FAILURE"}
          /\ handlerCalls = 0
    /\ (mainPc = "loop" \/ handlerCalls > 0) =>
          /\ blok_data # "unallocated"
          /\ blok_data # "NULL"
          /\ blok_data.rootdir = "absolute"
          /\ blok_data.logfile = "open"

(***************************************************************************)
(* Spec: the handlers that carry a handle in fi->fh, and the forwarding    *)
(* handlers, called from several threads.                                  *)
(*                                                                         *)
(* A handler makes its underlying call and then reads only its thread's    *)
(* errno and its own arguments, so one handler call is one step.           *)
(***************************************************************************)
\* Descriptors are 0..MaxFd; pointer values are scaled down with them.
MaxFd == 2

\* The threads of SpecThreads and the open-file objects of Spec.
Threads == {1, 2}
Files == {1, 2}
Fds == 0..MaxFd

\* A 64-bit value as its two 32-bit words, each read as a signed int.
NULL == [hi |-> 0, lo |-> 0]

\* fi->fh = fd: an int converted to uint64_t is sign-extended.
FromInt(n) == [hi |-> IF n < 0 THEN -1 ELSE 0, lo |-> n]

\* close(fi->fh), pread(fi->fh, ...): a uint64_t converted to int keeps the
\* low word.
ToInt(u) == u.lo

\* fi->fh = (intptr_t) dp and (DIR *) (uintptr_t) fi->fh keep all 64 bits.
FromPtr(ptr) == ptr
ToPtr(u) == u

\* The addresses opendir may return: on the heap above 4 GiB, any low word,
\* among them words equal to a descriptor number and one equal to none.
DirPtrs == {[hi |-> 1, lo |-> l] : l \in 1..(MaxFd + 1)}

NoCall ==
    [op |-> "none", kind |-> "none", old |-> NULL, fh |-> NULL, failed |-> FALSE,
     raw |-> 0, err |-> 0, ret |-> 0, closed |-> {}, calls |-> 0]

FsInit(T, F) ==
    /\ errno = [t \in T |-> 0]
    /\ slot = [f \in F |-> NULL]
    /\ kind = [f \in F |-> "none"]
    /\ fdTable = [d \in Fds |-> "free"]
    /\ dirLive = {}
    /\ dirFd = [ptr \in DirPtrs |-> -1]
    /\ crashed = FALSE
    /\ last = NoCall

\* The kernel hands out the lowest free descriptor, and EMFILE when none is.
HasFree(tbl) == \E d \in Fds : tbl[d] = "free"
LowestFree(tbl) == CHOOSE d \in Fds : tbl[d] = "free" /\ \A e \in Fds : tbl[e] = "free" => d <= e

\* The underlying close(fd): EBADF when fd is no open descriptor; otherwise the
\* descriptor is released, also when the close reports ioErr.
IsOpenFd(tbl, fd) == fd \in Fds /\ tbl[fd] # "free"
sys_close(tbl, fd, ioErr) ==
    IF IsOpenFd(tbl, fd)
    THEN [ret |-> IF ioErr = 0 THEN 0 ELSE -1, err |-> ioErr,
          tbl |-> [tbl EXCEPT ![fd] = "free"], closed |-> {fd}]
    ELSE [ret |-> -1, err |-> EBADF, tbl |-> tbl, closed |-> {}]

\* errno after an underlying call: set by a failing call, else left alone.
ErrnoAfter(t, raw, e) == IF raw < 0 THEN [errno EXCEPT ![t] = e] ELSE errno

OpenSlotKeep(fd, old) == IF fd < 0 THEN old ELSE FromInt(fd)

\* blok_open: fi->fh = fd, whatever fd is.
OpenSlot(fd, old) == FromInt(fd)

\* What the caller's fuse_file_info may hold in fh when blok_open is entered:
\* zero, or a descriptor number left by an earlier open.
StaleSlots == {NULL, FromInt(1)}

blok_open(t, f) ==
    /\ ~crashed
    /\ kind[f] = "none"
    /\ \E fail \in {0, ENOENT}, old \in StaleSlots :
          LET ok == fail = 0 /\ HasFree(fdTable)
              raw == IF ok THEN LowestFree(fdTable) ELSE -1
              e == IF fail # 0 THEN fail ELSE EMFILE
              errno1 == ErrnoAfter(t, raw, e)
              fd == wrap_return_code(raw, errno1[t])
              ret == IF fd < 0 THEN -errno1[t] ELSE 0
          IN  /\ errno' = errno1
              /\ slot' = [slot EXCEPT ![f] = OpenSlot(fd, old)]
              /\ kind' = [kind EXCEPT ![f] = IF ret = 0 THEN "file" ELSE "none"]
              /\ fdTable' = IF ok THEN [fdTable EXCEPT ![raw] = "file"] ELSE fdTable
              /\ last' = [NoCall EXCEPT !.op = "open", !.old = old, !.fh = slot'[f],
                                        !.failed = ~ok, !.raw = raw,
                                        !.err = IF ok THEN 0 ELSE e, !.ret = ret, !.calls = 1]
    /\ UNCHANGED <<dirLive, dirFd, crashed, notFs>>

\* blok_release: return wrap_return_code(close(fi->fh)).  The transport calls
\* it on a file handle; a caller that passes a directory handle gets the same
\* code.  The transport's open-file object ends with the call: its slot is a
\* fresh, zeroed one at the next open.
blok_release(t, f) ==
    /\ ~crashed
    /\ kind[f] \in {"file", "dir"}
    /\ \E ioErr \in {0, EIO} :
          LET c == sys_close(fdTable, ToInt(slot[f]), ioErr)
              errno1 == ErrnoAfter(t, c.ret, c.err)
          IN  /\ errno' = errno1
              /\ fdTable' = c.tbl
              /\ last' = [NoCall EXCEPT !.op = "release", !.kind = kind[f],
                                        !.fh = slot[f], !.failed = c.ret < 0, !.raw = c.ret,
                                        !.err = c.err, !.ret = wrap_return_code(c.ret, errno1[t]),
                                        !.closed = c.closed, !.calls = 1]
    /\ kind' = [kind EXCEPT ![f] = "none"]
    /\ slot' = [slot EXCEPT ![f] = NULL]
    /\ UNCHANGED <<dirLive, dirFd, crashed, notFs>>

\* blok_opendir: fi->fh = (intptr_t) dp, and -errno when dp is NULL.
blok_opendir(t, f) ==
    /\ ~crashed
    /\ kind[f] = "none"
    /\ \E fail \in {0, ENOENT}, ptr \in DirPtrs \ dirLive :
          LET ok == fail = 0 /\ HasFree(fdTable)
              d == IF ok THEN LowestFree(fdTable) ELSE -1
              e == IF fail # 0 THEN fail ELSE EMFILE
              dp == IF ok THEN ptr ELSE NULL
              errno1 == ErrnoAfter(t, IF ok THEN 0 ELSE -1, e)
              ret == IF dp = NULL THEN -errno1[t] ELSE 0
          IN  /\ errno' = errno1
              /\ slot' = [slot EXCEPT ![f] = FromPtr(dp)]
              /\ kind' = [kind EXCEPT ![f] = IF ret = 0 THEN "dir" ELSE "none"]
              /\ fdTable' = IF ok THEN [fdTable EXCEPT ![d] = "dir"] ELSE fdTable
              /\ dirLive' = IF ok THEN dirLive \cup {ptr} ELSE dirLive
              /\ dirFd' = IF ok THEN [dirFd EXCEPT ![ptr] = d] ELSE dirFd
              /\ last' = [NoCall EXCEPT !.op = "opendir", !.fh = slot'[f],
                                        !.failed = ~ok, !.raw = IF ok THEN 0 ELSE -1,
                                        !.err = IF ok THEN 0 ELSE e, !.ret = ret, !.calls = 1]
    /\ UNCHANGED <<crashed, notFs>>

\* blok_readdir on a directory handle.  The stream's entries are the subject
\* of SpecDir; here the call has one of four outcomes: the underlying readdir
\* fails; the stream is at its end at the first readdir, which returns NULL
\* and leaves errno alone; every entry is handed over; the filler refuses one.
blok_readdir(t, f) ==
    /\ ~crashed
    /\ kind[f] = "dir"
    /\ LET dp == ToPtr(slot[f])
           fdOk == IsOpenFd(fdTable, dirFd[dp]) /\ fdTable[dirFd[dp]] = "dir"
       IN  \E outcome \in {"fails", "end", "entries", "refused"} :
              /\ ~fdOk => outcome = "fails"
              /\ LET e == IF fdOk THEN EIO ELSE EBADF
                     errno1 == ErrnoAfter(t, IF outcome = "fails" THEN -1 ELSE 0, e)
                     ret == CASE outcome \in {"fails", "end"} -> -errno1[t]
                              [] outcome = "refused" -> -ENOMEM
                              [] OTHER -> 0
                 IN  /\ errno' = errno1
                     /\ last' = [NoCall EXCEPT !.op = "readdir", !.kind = "dir",
                                               !.fh = slot[f], !.failed = outcome = "fails",
                                               !.raw = IF outcome = "fails" THEN -1 ELSE 0,
                                               !.err = IF outcome = "fails" THEN e ELSE 0,
                                               !.ret = ret, !.calls = 1]
    /\ UNCHANGED <<slot, kind, fdTable, dirLive, dirFd, crashed, notFs>>

\* blok_releasedir on a directory handle: closedir(dp), result dropped,
\* return 0.  closedir closes the stream's descriptor number and frees dp.
blok_releasedir(t, f) ==
    /\ ~crashed
    /\ kind[f] = "dir"
    /\ \E ioErr \in {0, EIO} :
          LET dp == ToPtr(slot[f])
              c == sys_close(fdTable, dirFd[dp], ioErr)
              errno1 == ErrnoAfter(t, c.ret, c.err)
          IN  /\ errno' = errno1
              /\ fdTable' = c.tbl
              /\ dirLive' = dirLive \ {dp}
              /\ dirFd' = [dirFd EXCEPT ![dp] = -1]
              /\ last' = [NoCall EXCEPT !.op = "releasedir", !.kind = "dir",
                                        !.fh = slot[f], !.failed = c.ret < 0, !.raw = c.ret,
                                        !.err = c.err, !.ret = 0, !.closed = c.closed,
                                        !.calls = 1]
    /\ kind' = [kind EXCEPT ![f] = "none"]
    /\ slot' = [slot EXCEPT ![f] = NULL]
    /\ UNCHANGED <<crashed, notFs>>

\* blok_readdir or blok_releasedir called with a file handle: the descriptor
\* number (or the negated error code) is cast to DIR * and handed to readdir()
\* or closedir(), which dereference it: the address is not mapped and the
\* process dies.  Descriptor 0 casts to the null pointer, which closedir()
\* may instead reject with EINVAL; releasedir then returns 0 as ever.
DirCallOnFileHandle(t, f) ==
    /\ ~crashed
    /\ kind[f] = "file"
    /\ \E op \in {"readdir", "releasedir"}, rejected \in BOOLEAN :
          IF rejected /\ op = "releasedir" /\ ToPtr(slot[f]) = NULL
          THEN /\ errno' = [errno EXCEPT ![t] = EINVAL]
               /\ kind' = [kind EXCEPT ![f] = "none"]
               /\ last' = [NoCall EXCEPT !.op = op, !.kind = "file", !.fh = slot[f],
                                         !.failed = TRUE, !.raw = -1, !.err = EINVAL,
                                         !.ret = 0, !.calls = 1]
               /\ UNCHANGED crashed
          ELSE /\ last' = [NoCall EXCEPT !.op = op, !.kind = "file", !.fh = slot[f],
                                         !.calls = 1]
               /\ crashed' = TRUE
               /\ UNCHANGED <<errno, kind>>
    /\ UNCHANGED <<slot, fdTable, dirLive, dirFd, notFs>>

\* The handlers that resolve a path and return wrap_return_code(call(fpath, ..)):
\* getattr, mkdir, unlink, rmdir, symlink, rename, link, chmod, chown, truncate,
\* utime, statfs, the xattr group, and access with the same test written out.
PathOps == {"getattr", "access"}

blok_path_handler(t, op) ==
    /\ ~crashed
    /\ \E fail \in {0, ENOENT} :
          LET raw == IF fail = 0 THEN 0 ELSE -1
              errno1 == ErrnoAfter(t, raw, fail)
          IN  /\ errno' = errno1
              /\ last' = [NoCall EXCEPT !.op = op, !.failed = raw < 0, !.raw = raw, !.err = fail,
                                        !.ret = wrap_return_code(raw, errno1[t]), !.calls = 1]
    /\ UNCHANGED <<slot, kind, fdTable, dirLive, dirFd, crashed, notFs>>

\* The handlers that pass fi->fh to a descriptor call: read (pread), write
\* (pwrite), fsync, ftruncate, fgetattr.
FdOps == {"read", "write"}

blok_fd_handler(t, f, op) ==
    /\ ~crashed
    /\ kind[f] = "file"
    /\ \E fail \in {0, EIO}, n \in {1} :
          LET open == IsOpenFd(fdTable, ToInt(slot[f]))
              raw == IF open /\ fail = 0 THEN n ELSE -1
              e == IF open THEN fail ELSE EBADF
              errno1 == ErrnoAfter(t, raw, e)
          IN  /\ errno' = errno1
              /\ last' = [NoCall EXCEPT !.op = op, !.kind = "file",
                                        !.fh = slot[f], !.failed = raw < 0, !.raw = raw,
                                        !.err = IF raw < 0 THEN e ELSE 0,
                                        !.ret = wrap_return_code(raw, errno1[t]), !.calls = 1]
    /\ UNCHANGED <<slot, kind, fdTable, dirLive, dirFd, crashed, notFs>>

\* blok_mknod: a regular file is created by open(O_CREAT | O_EXCL | O_WRONLY)
\* and closed at once; a FIFO by mkfifo; anything else by mknod.
blok_mknod(t) ==
    /\ ~crashed
    /\ \E mode \in {"S_IFREG", "S_IFIFO", "S_IFCHR"}, fail \in {0, ENOENT}, ioErr \in {0, EIO} :
          LET opened == mode = "S_IFREG" /\ fail = 0 /\ HasFree(fdTable)
              raw1 == IF mode = "S_IFREG"
                      THEN (IF opened THEN LowestFree(fdTable) ELSE -1)
                      ELSE (IF fail = 0 THEN 0 ELSE -1)
              e1 == IF fail # 0 THEN fail ELSE EMFILE
              errno1 == ErrnoAfter(t, raw1, e1)
              retstat == wrap_return_code(raw1, errno1[t])
              rawC == IF ioErr = 0 THEN 0 ELSE -1
              errno2 == IF opened /\ rawC < 0 THEN [errno1 EXCEPT ![t] = ioErr] ELSE errno1
          IN  /\ errno' = errno2
              /\ last' = [NoCall EXCEPT !.op = "mknod",
                                        !.failed = IF opened THEN rawC < 0 ELSE raw1 < 0,
                                        !.raw = IF opened THEN rawC ELSE raw1,
                                        !.err = IF opened THEN ioErr
                                                ELSE (IF raw1 < 0 THEN e1 ELSE 0),
                                        !.ret = IF opened THEN wrap_return_code(rawC, errno2[t])
                                                ELSE retstat,
                                        !.calls = IF opened THEN 2 ELSE 1]
    /\ UNCHANGED <<slot, kind, fdTable, dirLive, dirFd, crashed, notFs>>

\* Spec: one thread, every open-file object.
Init == FsInit({1}, Files) /\ PathIdle /\ LinkIdle /\ MainIdle /\ DirIdle /\ IoIdle
Next ==
    \/ \E f \in Files : blok_open(1, f)
    \/ \E f \in Files : blok_release(1, f)
    \/ \E f \in Files : blok_opendir(1, f)
    \/ \E f \in Files : blok_readdir(1, f)
    \/ \E f \in Files : blok_releasedir(1, f)
    \/ \E f \in Files : DirCallOnFileHandle(1, f)
    \/ \E op \in PathOps : blok_path_handler(1, op)
    \/ \E f \in Files, op \in FdOps : blok_fd_handler(1, f, op)
    \/ blok_mknod(1)
Spec == Init /\ [][Next]_vars

\* SpecThreads: every thread, one open-file object.
InitThreads == FsInit(Threads, {1}) /\ PathIdle /\ LinkIdle /\ MainIdle /\ DirIdle /\ IoIdle
NextThreads ==
    \/ \E t \in Threads : blok_open(t, 1)
    \/ \E t \in Threads : blok_release(t, 1)
    \/ \E t \in Threads : blok_opendir(t, 1)
    \/ \E t \in Threads : blok_readdir(t, 1)
    \/ \E t \in Threads : blok_releasedir(t, 1)
    \/ \E t \in Threads : DirCallOnFileHandle(t, 1)
    \/ \E t \in Threads, op \in PathOps : blok_path_handler(t, op)
    \/ \E t \in Threads, op \in FdOps : blok_fd_handler(t, 1, op)
    \/ \E t \in Threads : blok_mknod(t)
SpecThreads == InitThreads /\ [][NextThreads]_vars

\* The handlers that return the normalised result of an underlying call whose
\* result is an int (opendir included: a null stream is its failure).  readdir,
\* whose result also depends on the filler, is the subject of C10.
ForwardingOps ==
    {"open", "release", "opendir", "releasedir", "mknod"} \cup PathOps \cup FdOps

\* C1: whenever a forwarding handler has returned, a non-negative result of
\* its underlying call gave a non-negative return value, and a failed underlying
\* call gave the negation of the error code that this call set: never 0, never
\* positive, never another call's or another thread's code.
C1_ForwardedResult ==
    (last.op \in ForwardingOps /\ ~crashed) =>
        /\ ~last.failed => last.ret >= 0
        /\ last.failed => (last.ret = -last.err /\ last.ret < 0)

\* C2: after open, a successful underlying open with descriptor d (0 included)
\* leaves d in fi->fh and open returns 0; a failed one leaves a negative
\* sentinel, the negated error code of this open: not 0, not what the slot held
\* before, nothing that reads as a descriptor; and open returns the negated
\* error code.
C2_OpenSlot ==
    last.op = "open" =>
        /\ \E f \in DOMAIN slot : slot[f] = last.fh
        /\ IF ~last.failed
           THEN /\ last.raw \in Fds
                /\ last.fh = FromInt(last.raw)
                /\ ToInt(last.fh) = last.raw
                /\ last.ret = 0
           ELSE /\ last.err > 0
                /\ last.fh = FromInt(-last.err)
                /\ ToInt(last.fh) < 0
                /\ last.fh # NULL
                /\ ToInt(last.fh) \notin Fds
                /\ last.ret = -last.err

\* C2 witness: an open failed on a slot that held a descriptor number, while
\* another thread's errno held a different code.
C2_Witness ==
    /\ last.op = "open"
    /\ last.failed
    /\ last.old = FromInt(1)
    /\ last.fh = FromInt(-ENOENT)
    /\ \E t \in DOMAIN errno : errno[t] \notin {0, last.err}

\* The handle of f is open: the descriptor of a file handle is a file's open
\* descriptor; the stream of a directory handle exists and its descriptor is open.
HandleOpen(f) ==
    CASE kind[f] = "file" ->
            /\ IsOpenFd(fdTable, ToInt(slot[f]))
            /\ fdTable[ToInt(slot[f])] = "file"
      [] kind[f] = "dir" ->
            /\ ToPtr(slot[f]) \in dirLive
            /\ IsOpenFd(fdTable, dirFd[ToPtr(slot[f])])
            /\ fdTable[dirFd[ToPtr(slot[f])]] = "dir"
      [] OTHER -> TRUE

\* C5: each release makes exactly one close, on the descriptor in its slot,
\* each releasedir exactly one closedir, on the stream in its slot; no other
\* handler closes a descriptor that open or opendir handed out; and every
\* handle is open from its successful open/opendir until its own release/
\* releasedir.
C5_HandleLifetime ==
    /\ last.op = "release" => (last.calls = 1 /\ last.closed \subseteq {ToInt(last.fh)})
    /\ (last.op = "releasedir" /\ ~crashed) => last.calls = 1
    /\ last.closed # {} => last.op \in {"release", "releasedir"}
    /\ ~crashed => \A f \in DOMAIN kind : HandleOpen(f)

\* C8: release called with a handle that opendir returned fails: the
\* underlying close rejects the value, release returns a negative code, and no
\* descriptor is closed, least of all one that another open handle holds.
C8_DisjointHandles ==
    (last.op = "release" /\ last.kind = "dir") =>
        /\ last.failed
        /\ last.ret < 0
        /\ last.closed = {}

(***************************************************************************)
(* SpecDir: one directory stream served by one thread: opendir, readdir    *)
(* calls with the transport's filler, releasedir.                          *)
(***************************************************************************)
\* Most entries in the directory, and most entries one reply buffer takes.
MaxEntries == 2
MaxCap == 2
EntryNames == {"a", "b", "c"}

\* The listings a stream may yield: no name twice.
Listings ==
    {e \in SeqsOf(EntryNames, 0, MaxEntries) :
        \A i, j \in 1..Len(e) : i # j => e[i] # e[j]}

NoEntry == "NULL"

\* The k-th underlying readdir(dp) of a call: it fails with EIO when k is
\* failAt; at the end of the stream it returns NULL and leaves errno alone;
\* otherwise it returns the next entry and moves the stream on.
sys_readdir(entries, pos, k, failAt) ==
    IF k = failAt THEN [de |-> NoEntry, pos |-> pos, err |-> EIO]
    ELSE IF pos >= Len(entries) THEN [de |-> NoEntry, pos |-> pos, err |-> 0]
    ELSE [de |-> entries[pos + 1], pos |-> pos + 1, err |-> 0]

\* filler(buf, de->d_name, NULL, 0): non-zero when the reply buffer, which
\* takes cap entries, is full.
filler(taken, cap) == IF Len(taken) >= cap THEN 1 ELSE 0

\* The do-while of blok_readdir with entry de in hand: the filler is given
\* de; a refusal returns -ENOMEM; else the next entry is read and the loop
\* goes on until readdir returns NULL, and the call returns retstat, 0.
RECURSIVE readdir_loop(_, _, _, _, _, _, _)
readdir_loop(entries, cap, failAt, de, pos, k, taken) ==
    IF filler(taken, cap) # 0
    THEN [ret |-> -ENOMEM, pos |-> pos, handed |-> taken \o <<de>>, taken |-> taken,
          err |-> 0, refused |-> TRUE]
    ELSE LET r == sys_readdir(entries, pos, k + 1, failAt)
         IN  IF r.de = NoEntry
             THEN [ret |-> 0, pos |-> r.pos, handed |-> taken \o <<de>>,
                   taken |-> taken \o <<de>>, err |-> r.err, refused |-> FALSE]
             ELSE readdir_loop(entries, cap, failAt, r.de, r.pos, k + 1, taken \o <<de>>)

\* blok_readdir: the first readdir; NULL returns -errno; else the loop.
readdir_call(entries, pos, cap, failAt, err) ==
    LET r == sys_readdir(entries, pos, 1, failAt)
    IN  IF r.de = NoEntry
        THEN [ret |-> -(IF r.err # 0 THEN r.err ELSE err), pos |-> r.pos, handed |-> <<>>,
              taken |-> <<>>, err |-> r.err, refused |-> FALSE]
        ELSE readdir_loop(entries, cap, failAt, r.de, r.pos, 1, <<>>)

DirInit ==
    /\ dEntries \in Listings
    /\ dPos = 0
    /\ dState = "closed"
    /\ dErrno = 0
    /\ dHanded = <<>>
    /\ dTaken = <<>>
    /\ dLast = [op |-> "none"]

\* blok_opendir succeeds: the stream stands before its first entry.
DirOpendir ==
    /\ dState = "closed"
    /\ dState' = "open"
    /\ dLast' = [op |-> "opendir"]
    /\ UNCHANGED <<dEntries, dPos, dErrno, dHanded, dTaken, notDir>>

\* Another handler runs on the same thread and its underlying call fails:
\* the thread's errno keeps that code.
DirEarlierFailure ==
    /\ dState \in {"closed", "open"}
    /\ \E e \in {ENOENT, EBADF} : dErrno' = e
    /\ dLast' = [op |-> "other"]
    /\ UNCHANGED <<dEntries, dPos, dState, dHanded, dTaken, notDir>>

\* blok_readdir, whole handler, with a reply buffer that takes cap entries.
DirReaddir ==
    /\ dState = "open"
    /\ \E cap \in 1..MaxCap, failAt \in 0..(MaxEntries + 1) :
          LET c == readdir_call(dEntries, dPos, cap, failAt, dErrno)
          IN  /\ dPos' = c.pos
              /\ dErrno' = IF c.err # 0 THEN c.err ELSE dErrno
              /\ dHanded' = dHanded \o c.handed
              /\ dTaken' = dTaken \o c.taken
              /\ dLast' = [op |-> "readdir", ret |-> c.ret, refused |-> c.refused,
                           atEnd |-> dPos >= Len(dEntries), failed |-> c.err # 0,
                           firstFailed |-> failAt = 1, handed |-> c.handed]
    /\ UNCHANGED <<dEntries, dState, notDir>>

\* blok_releasedir: closedir and return 0.
DirReleasedir ==
    /\ dState = "open"
    /\ dState' = "released"
    /\ dLast' = [op |-> "releasedir"]
    /\ UNCHANGED <<dEntries, dPos, dErrno, dHanded, dTaken, notDir>>

InitDir == DirInit /\ PathIdle /\ LinkIdle /\ MainIdle /\ FsIdle /\ IoIdle
NextDir == DirOpendir \/ DirEarlierFailure \/ DirReaddir \/ DirReleasedir
SpecDir == InitDir /\ [][NextDir]_vars

\* C3: once readdir calls have read the stream to its end, the filler has been
\* handed every entry of the directory once and has them all: none is missing
\* from what the readdir calls together reported, also when the filler refused
\* an entry in one call and readdir was called again.
C3_ListingComplete ==
    (dState \in {"open", "released"} /\ dPos = Len(dEntries)) =>
        /\ dHanded = dEntries
        /\ dTaken = dEntries

\* C10: readdir on a stream already at its end, with no error from the
\* underlying readdir, returns 0 and reports nothing, whatever errno held; and
\* readdir returns a negative code only when the underlying readdir failed or
\* the filler refused an entry.
C10_EndOfStream ==
    dLast.op = "readdir" =>
        /\ (dLast.atEnd /\ ~dLast.failed) => (dLast.ret = 0 /\ dLast.handed = <<>>)
        /\ dLast.ret < 0 => (dLast.failed \/ dLast.refused)

(***************************************************************************)
(* SpecIo: blok_read and blok_write from several threads on one open       *)
(* descriptor.  blok_read is two steps, log_msg and then pread; blok_write *)
(* is the one pwrite.                                                      *)
(***************************************************************************)
\* Largest offset and largest size of a call, and the calling threads.
MaxOff == 1
MaxIo == 2
IoThreads == {1, 2}
\* Byte values, the null byte among them.
IoBytes == {0, 1}

Max(a, b) == IF a > b THEN a ELSE b

\* pwrite(fd, buf, size, offset) on the file's bytes: the bytes go to
\* offset.., a gap past the old end reads as null bytes.
sys_pwrite(file, buf, offset) ==
    [i \in 1..Max(Len(file), offset + Len(buf)) |->
        IF i > offset /\ i <= offset + Len(buf) THEN buf[i - offset]
        ELSE IF i <= Len(file) THEN file[i]
        ELSE 0]

\* pread(fd, buf, size, offset): the bytes at offset.., up to size of them and
\* up to the end of the file.
sys_pread(file, sz, offset) == SubSeq(file, offset + 1, Min(Len(file), offset + sz))

blok_read_at_cursor(offset, cursor) == cursor

\* Where blok_read reads: the offset argument handed to pread.
blok_read_offset(offset, cursor) == offset

\* Where blok_write writes: the offset argument handed to pwrite.
blok_write_offset(offset, cursor) == offset

\* ioWritten[i] holds the byte the write calls last put at position i, as a
\* one-element set, or no byte at all.
NeverWritten == {}

IoInit ==
    /\ ioFile = <<>>
    /\ ioCursor = 0
    /\ ioWritten = [i \in 1..(MaxOff + MaxIo) |-> NeverWritten]
    /\ ioPc = [t \in IoThreads |-> "idle"]
    /\ ioArgs = [t \in IoThreads |-> [offset |-> 0, size |-> 0]]
    /\ ioLast = [op |-> "none"]

\* blok_write, whole handler: return wrap_return_code(pwrite(fi->fh, ..)).
blok_write(t) ==
    /\ ioPc[t] = "idle"
    /\ \E offset \in 0..MaxOff, buf \in SeqsOf(IoBytes, 1, MaxIo) :
          LET at == blok_write_offset(offset, ioCursor)
          IN  /\ ioFile' = sys_pwrite(ioFile, buf, at)
              /\ ioWritten' = [i \in DOMAIN ioWritten |->
                                  IF i > offset /\ i <= offset + Len(buf)
                                  THEN {buf[i - offset]} ELSE ioWritten[i]]
              /\ ioLast' = [op |-> "write", size |-> Len(buf),
                            ret |-> wrap_return_code(Len(buf), 0)]
    /\ UNCHANGED <<ioCursor, ioPc, ioArgs, notIo>>

\* blok_read, first step: log_msg writes the path, offset and size to the log
\* stream, which no other handler reads.
blok_read_log(t) ==
    /\ ioPc[t] = "idle"
    /\ \E offset \in 0..MaxOff, sz \in 1..MaxIo :
          ioArgs' = [ioArgs EXCEPT ![t] = [offset |-> offset, size |-> sz]]
    /\ ioPc' = [ioPc EXCEPT ![t] = "logged"]
    /\ UNCHANGED <<ioFile, ioCursor, ioWritten, ioLast, notIo>>

\* blok_read, second step: return wrap_return_code(pread(fi->fh, ..)).
blok_read_pread(t) ==
    /\ ioPc[t] = "logged"
    /\ LET at == blok_read_offset(ioArgs[t].offset, ioCursor)
           got == sys_pread(ioFile, ioArgs[t].size, at)
       IN  ioLast' = [op |-> "read", offset |-> ioArgs[t].offset, size |-> ioArgs[t].size,
                      ret |-> wrap_return_code(Len(got), 0), data |-> got]
    /\ ioPc' = [ioPc EXCEPT ![t] = "idle"]
    /\ ioArgs' = [ioArgs EXCEPT ![t] = [offset |-> 0, size |-> 0]]
    /\ UNCHANGED <<ioFile, ioCursor, ioWritten, notIo>>

InitIo == IoInit /\ PathIdle /\ LinkIdle /\ MainIdle /\ FsIdle /\ DirIdle
NextIo ==
    \/ \E t \in IoThreads : blok_write(t)
    \/ \E t \in IoThreads : blok_read_log(t)
    \/ \E t \in IoThreads : blok_read_pread(t)
SpecIo == InitIo /\ [][NextIo]_vars

\* The end of the file as the write calls made it.
WrittenEnd ==
    LET ws == {i \in DOMAIN ioWritten : ioWritten[i] # NeverWritten}
    IN  IF ws = {} THEN 0 ELSE CHOOSE i \in ws : \A j \in ws : j <= i

\* What the write calls last put at position i (1-based); a gap reads as 0.
LastWritten(i) ==
    IF ioWritten[i] = NeverWritten THEN 0 ELSE CHOOSE b \in ioWritten[i] : TRUE

\* C6: a finished read returns, for its own offset and size, the bytes that
\* write calls last put in that range, null bytes included, as many as lie
\* before the end of the file, whatever other reads and writes ran in between;
\* and no read or write moves the descriptor's file position or changes the
\* offset and size that a read in progress works with.
C6_PositionedIo ==
    /\ ioLast.op = "read" =>
          /\ ioLast.ret = Max(0, Min(ioLast.size, WrittenEnd - ioLast.offset))
          /\ Len(ioLast.data) = ioLast.ret
          /\ \A i \in 1..ioLast.ret : ioLast.data[i] = LastWritten(ioLast.offset + i)
    /\ ioLast.op = "write" => ioLast.ret = ioLast.size
    /\ ioCursor = 0

\* C6 witness: a read at offset 1 returned two bytes, a null byte among them,
\* while another thread was inside a read of its own.
C6_Witness ==
    /\ ioLast.op = "read"
    /\ ioLast.offset = 1
    /\ ioLast.data = <<0, 1>>
    /\ \E t \in IoThreads : ioPc[t] = "logged" /\ ioArgs[t].offset = 0

====
